---- MODULE Spec2Model ----
(***************************************************************************)
(* Model of the request-dispatch utility of oae-rest (util.js, kept in     *)
(* src/lib/api.doc.js from line 58 on) and of the wrappers that use the    *)
(* context's cookie jar.                                                   *)
(*                                                                         *)
(* Four specifications share the definitions below:                        *)
(*   SpecReq  one doRequest(options, data, callback) taken in isolation:   *)
(*            Init draws the method and the parameter bag, the actions are *)
(*            the synchronous part of doRequest and the two ways the       *)
(*            HTTP client calls back;                                      *)
(*   Spec     calls of performRestRequest and Content.download on shared   *)
(*            request contexts, interleaved at the granularity of the      *)
(*            event loop (one synchronous run of a handler per action);    *)
(*   SpecWrap one call of a wrapper that does more than forward its        *)
(*            callback (pictures, tenants, signed authentication,          *)
(*            transfers), with the timers it arms;                         *)
(*   SpecEnc  encodeURIComponent applied to one path identifier.           *)
(***************************************************************************)
EXTENDS Integers, Sequences, FiniteSets, TLC

VARIABLES
    rq,        \* SpecReq: the doRequest invocation under study
    ctx,       \* Spec: the request contexts (RestContext objects)
    jars,      \* Spec: the cookie jars created by request.jar()
    calls,     \* Spec, SpecWrap: the calls of performRestRequest and download
    wr,        \* SpecWrap: the wrapper invocation under study
    enc        \* SpecEnc: the encodeURIComponent invocation under study

vars == <<rq, ctx, jars, calls, wr, enc>>

(***************************************************************************)
(* Bounds                                                                  *)
(***************************************************************************)
MaxArrayLen == 2      \* longest array given as a parameter value
MaxCalls == 2         \* calls the application makes in one run

(***************************************************************************)
(* Program constants                                                       *)
(***************************************************************************)
HTTP_GET == "GET"
HTTP_POST == "POST"

\* the methods the wrappers pass: 'GET'/'POST' constants, and the lower-case
\* 'get' of api.transfer.js
Methods == {"GET", "POST", "get"}

(***************************************************************************)
(* Parameter values.  A value of the parameter bag is either a single atom *)
(* or an array of atoms.                                                   *)
(***************************************************************************)
TopAtoms == {"null", "undefined", "str", "true", "stream", "fnStream", "fnStr", "fnNull"}
ArrayAtoms == {"null", "str", "stream", "fnStream"}

V(a) == [arr |-> FALSE, items |-> <<a>>]
A(s) == [arr |-> TRUE, items |-> s]

SeqsUpTo(S, n) == UNION {[1..m -> S] : m \in 0..n}

Values == {V(a) : a \in TopAtoms} \cup {A(s) : s \in SeqsUpTo(ArrayAtoms, MaxArrayLen)}

Keys == <<"k1", "k2">>
KeySet == {Keys[i] : i \in 1..Len(Keys)}

ParamBags == UNION {[D -> Values] : D \in SUBSET KeySet}
EmptyBag == [k \in {} |-> V("null")]

\* `data` as the caller passes it: <<>> is null/undefined, <<bag>> an object
InputData == {<<>>} \cup {<<b>> : b \in ParamBags}

isArray(v) == v.arr
isFunction(a) == a \in {"fnStream", "fnStr", "fnNull"}
isStream(a) == a = "stream"
isBoolean(a) == a \in {"true", "false"}
isNull(a) == a = "null"
isUndefined(a) == a = "undefined"
\* Boolean(a)
isDefined(a) == a \notin {"null", "undefined", "false", ""}

\* calling a function-valued parameter
Invoke(a) ==
    CASE a = "fnStream" -> "stream"
      [] a = "fnStr" -> "str"
      [] a = "fnNull" -> "null"
      [] OTHER -> a

\* ramda toString of a boolean
toString(a) == "'" \o a \o "'"

defaultTo(d, x) == IF x = <<>> THEN d ELSE x[1]

(***************************************************************************)
(* doRequest, the synchronous part (api.doc.js 146-213 and 241-264)        *)
(***************************************************************************)

\* 164-175: an inner value of an array; only a function's result is tested
expandInner(a) == IF isFunction(a) THEN Invoke(a) ELSE a
innerSetsHasStream(a) == isFunction(a) /\ isStream(Invoke(a))

\* 162-189: one value of the bag
expandValue(v) ==
    IF isArray(v)
    THEN A([i \in 1..Len(v.items) |-> expandInner(v.items[i])])
    ELSE IF isFunction(v.items[1]) THEN V(Invoke(v.items[1])) ELSE v

valueSetsHasStream(v) ==
    IF isArray(v)
    THEN \E i \in 1..Len(v.items) : innerSetsHasStream(v.items[i])
    ELSE IF isFunction(v.items[1])
         THEN isStream(Invoke(v.items[1]))
         ELSE isStream(v.items[1])

\* 160-190
hasStream(data) == \E k \in DOMAIN data : valueSetsHasStream(data[k])
expand(data) == [k \in DOMAIN data |-> expandValue(data[k])]

\* 193-205: drop null/undefined values, filter arrays, drop emptied arrays
sanitizeKeeps(v) ==
    IF isArray(v)
    THEN SelectSeq(v.items, isDefined) # <<>>
    ELSE ~(isNull(v.items[1]) \/ isUndefined(v.items[1]))

sanitize(data) ==
    [k \in {j \in DOMAIN data : sanitizeKeeps(data[j])} |->
        IF isArray(data[k]) THEN A(SelectSeq(data[k].items, isDefined)) ELSE data[k]]

isNotEmpty(data) == DOMAIN data # {}

\* 207-209
optionsQs(method, data) ==
    IF isNotEmpty(data) /\ method = HTTP_GET THEN <<data>> ELSE <<>>

\* 207-212
optionsForm(method, data, hs) ==
    IF isNotEmpty(data) /\ method # HTTP_GET /\ (~hs /\ method # HTTP_GET)
    THEN <<data>> ELSE <<>>

\* 248-262: the parts appended for one key
Part(k, x) == [key |-> k, value |-> x]
partsOf(k, v) ==
    IF isArray(v)
    THEN [i \in 1..Len(v.items) |-> Part(k, v.items[i])]
    ELSE IF isBoolean(v.items[1])
         THEN <<Part(k, toString(v.items[1]))>>
         ELSE <<Part(k, v.items[1])>>

\* the order in which forEachObjIndexed visits the keys of a bag
KeyOrder == Keys \o <<"file">>

RECURSIVE partsFrom(_, _)
partsFrom(i, data) ==
    IF i > Len(KeyOrder) THEN <<>>
    ELSE (IF KeyOrder[i] \in DOMAIN data
          THEN partsOf(KeyOrder[i], data[KeyOrder[i]]) ELSE <<>>)
         \o partsFrom(i + 1, data)

\* 241-264: <<>> when request_.form() is never called
multipartForm(data, hs) == IF hs THEN <<partsFrom(1, data)>> ELSE <<>>

\* 146-213, 241-264: what doRequest hands to the HTTP client
doRequest(method, dataIn) ==
    LET d0 == defaultTo(EmptyBag, dataIn)
        hs == hasStream(d0)
        d  == sanitize(expand(d0))
    IN  [method    |-> method,
         data      |-> d,
         hasStream |-> hs,
         qs        |-> optionsQs(method, d),
         form      |-> optionsForm(method, d, hs),
         multipart |-> multipartForm(d, hs)]

(***************************************************************************)
(* doRequest, the callback given to the HTTP client (api.doc.js 215-239)   *)
(***************************************************************************)
Null == [null |-> TRUE]
Undefined == [undefined |-> TRUE]

Statuses == {200, 302, 399, 400, 404, 500}
Bodies == {"{\"id\":1}", "plain", ""}
TransportErrors == {"ECONNREFUSED", "ETIMEDOUT"}

Response(s, b) == [statusCode |-> s, body |-> b]

\* what the HTTP client reports: an error, or a response with its body
Outcomes ==
    {[err |-> <<e>>, response |-> Null] : e \in TransportErrors}
    \cup {[err |-> <<>>, response |-> Response(s, b)] : s \in Statuses, b \in Bodies}

\* 231-235: JSON.parse(body), the body is kept as it is when parsing throws
JSON_ID == "{\"id\":1}"
JSON_PICTURE_SMALL == "{\"id\":1,\"picture\":{\"small\":\"/pics/small.jpg\"}}"
JSON_PICTURE_EMPTY == "{\"id\":1,\"picture\":{}}"
JSON_REQUEST_INFO ==
    "{\"url\":\"https://t.oae.org:8443/api/auth/signed\",\"body\":{\"signature\":\"s\"}}"
JSONTexts == {JSON_ID, JSON_PICTURE_SMALL, JSON_PICTURE_EMPTY, JSON_REQUEST_INFO}

isJSON(b) == b \in JSONTexts
parseBody(b) == [json |-> isJSON(b), text |-> b]

\* 220: util.format('Something went wrong ...:\n%s\n%s', err.message, err.stack)
formatTransport(e) ==
    "Something went wrong trying to contact the server:\n" \o e \o "\nError: " \o e

\* 224 with lt in place of lte
isErrorStatus_lt(statusCode) == 400 < statusCode

\* 224
isErrorStatus(statusCode) == 400 =< statusCode

Event(n, a) == [name |-> n, args |-> a]
Callback(e, b, r, n) == [err |-> e, body |-> b, response |-> r, nargs |-> n]

\* 215-239 with the client's error handed to the callback as it is
requestCallback_rawError(o) ==
    IF o.err # <<>>
    THEN [emitted  |-> <<Event("error", <<o.err[1]>>)>>,
          callback |-> Callback([message |-> o.err[1], stack |-> "Error: " \o o.err[1]],
                                Undefined, Undefined, 1)]
    ELSE IF isErrorStatus(o.response.statusCode)
    THEN LET err == [code |-> o.response.statusCode, msg |-> o.response.body]
         IN  [emitted  |-> <<Event("error", <<err, o.response.body, o.response>>)>>,
              callback |-> Callback(err, Undefined, Undefined, 1)]
    ELSE LET body == parseBody(o.response.body)
         IN  [emitted  |-> <<Event("response", <<body, o.response>>)>>,
              callback |-> Callback(Null, body, o.response, 3)]

\* 215-239: the events emitted and the callback invocation, in order
requestCallback(o) ==
    IF o.err # <<>>
    THEN [emitted  |-> <<Event("error", <<o.err[1]>>)>>,
          callback |-> Callback([code |-> 500, msg |-> formatTransport(o.err[1])],
                                Undefined, Undefined, 1)]
    ELSE IF isErrorStatus(o.response.statusCode)
    THEN LET err == [code |-> o.response.statusCode, msg |-> o.response.body]
         IN  [emitted  |-> <<Event("error", <<err, o.response.body, o.response>>)>>,
              callback |-> Callback(err, Undefined, Undefined, 1)]
    ELSE LET body == parseBody(o.response.body)
         IN  [emitted  |-> <<Event("response", <<body, o.response>>)>>,
              callback |-> Callback(Null, body, o.response, 3)]

(***************************************************************************)
(* SpecReq: one doRequest                                                  *)
(***************************************************************************)
RqOff == [phase |-> "off"]

RqNew(m, d) == [phase |-> "new", method |-> m, input |-> d]

\* doRequest up to its return: the request is with the HTTP client
ReqSend ==
    /\ rq.phase = "new"
    /\ rq' = [phase |-> "sent", method |-> rq.method, input |-> rq.input,
              sent |-> doRequest(rq.method, rq.input)]
    /\ UNCHANGED <<ctx, jars, calls, wr, enc>>

\* the HTTP client calls back with an error
ReqFail ==
    /\ rq.phase = "sent"
    /\ \E o \in Outcomes :
        /\ o.err # <<>>
        /\ rq' = [phase |-> "done", method |-> rq.method, input |-> rq.input,
                  sent |-> rq.sent, outcome |-> o,
                  emitted |-> requestCallback(o).emitted,
                  callbacks |-> <<requestCallback(o).callback>>]
    /\ UNCHANGED <<ctx, jars, calls, wr, enc>>

\* the HTTP client calls back with a response
ReqRespond ==
    /\ rq.phase = "sent"
    /\ \E o \in Outcomes :
        /\ o.err = <<>>
        /\ rq' = [phase |-> "done", method |-> rq.method, input |-> rq.input,
                  sent |-> rq.sent, outcome |-> o,
                  emitted |-> requestCallback(o).emitted,
                  callbacks |-> <<requestCallback(o).callback>>]
    /\ UNCHANGED <<ctx, jars, calls, wr, enc>>

NextReq == ReqSend \/ ReqFail \/ ReqRespond

(***************************************************************************)
(* Spec: calls on request contexts                                         *)
(***************************************************************************)
Ctxs == {"A", "B"}
CallIds == 1..MaxCalls

LOGIN_URL == "/api/auth/login"
API_URL == "/api/me"
DOWNLOAD_URL == "/api/content/c1/download"

\* the statuses of a download response
DownloadStatuses == {200, 204, 404}

\* what the application passes to performRestRequest
NetInputs ==
    {[method |-> HTTP_GET, data |-> <<>>],
     [method |-> HTTP_POST, data |-> <<[k \in {"k1"} |-> V("fnStream")]>>]}

\* what the HTTP client reports for a request of a call
NetOutcomes ==
    {[err |-> <<"ECONNREFUSED">>, response |-> Null],
     [err |-> <<>>, response |-> Response(200, "{\"id\":1}")],
     [err |-> <<>>, response |-> Response(400, "plain")]}

\* a RestContext as the application constructs it: no cookie jar yet
RestContext(host, user) ==
    [host |-> host, username |-> user,
     userPassword |-> IF user = <<>> THEN <<>> ELSE <<"secret">>,
     hostHeader |-> <<>>,
     cookieJar |-> 0, additionalHeaders |-> <<>>]

\* request.jar(): an empty jar
NewJar == [session |-> FALSE]

\* the wrapper and the encoder are not part of this specification
WrOff == [pc |-> "off"]
EncOff == [phase |-> "off"]

IdleCall ==
    [pc |-> "idle", op |-> "none", ctx |-> "none", url |-> "none", method |-> "none",
     data |-> <<>>,
     sent |-> <<>>, log |-> <<>>, outcomes |-> <<>>, callbacks |-> <<>>,
     jarBefore |-> 0, loginFailedBefore |-> FALSE,
     dl |-> [called |-> FALSE, response |-> Null, listeners |-> FALSE, req |-> "none"]]

L(e, k) == [ev |-> e, kind |-> k]

\* 327 with the login made for every context
loginRequired_always(restCtx) == TRUE

\* 327 with the login skipped for every context
loginRequired_never(restCtx) == FALSE

\* 327: isNotDefined(restCtx.username) returns without a login request
loginRequired(restCtx) == restCtx.username # <<>>

\* 360 testing for a session in the jar instead of for the jar
hasCookieJar_withSession(restCtx) ==
    restCtx.cookieJar # 0 /\ jars[restCtx.cookieJar].session

\* 360: if (restCtx.cookieJar)
hasCookieJar(restCtx) == restCtx.cookieJar # 0

\* 365 with the new jar not stored in the context
withNewJar_notStored(restCtx, j) == restCtx

\* 365: restCtx.cookieJar = request.jar()
withNewJar(restCtx, j) == [restCtx EXCEPT !.cookieJar = j]

\* 369 with the error ignored
fillFailed_never(err) == FALSE

\* 369 with only a transport failure (code 500) taken as an error
fillFailed_onlyTransport(err) == err # Null /\ err.code = 500

\* 369: if (err) return callback(err)
fillFailed(err) == err # Null

\* 330-339: the parameters of the login request
loginData(restCtx) ==
    <<[k \in {"username", "password"} |->
        IF k = "username"
        THEN V(IF restCtx.username = <<>> THEN "undefined" ELSE restCtx.username[1])
        ELSE V(IF restCtx.userPassword = <<>> THEN "undefined"
               ELSE restCtx.userPassword[1])]>>

\* 279-316: emit 'request', build the options from the context, doRequest
_performRestRequest(call, kind, restCtx, url, method, data, jarsNow) ==
    [call EXCEPT
        !.pc = kind,
        !.log = @ \o <<L("emit:request", kind), L("send", kind)>>,
        !.sent = Append(@,
            [kind    |-> kind,
             url     |-> restCtx.host \o url,
             method  |-> method,
             jar     |-> restCtx.cookieJar,
             session |-> IF restCtx.cookieJar = 0 THEN FALSE
                         ELSE jarsNow[restCtx.cookieJar].session,
             headers |-> restCtx.additionalHeaders,
             host    |-> restCtx.hostHeader,
             req     |-> doRequest(method, data)])]

\* 325-340
fillCookieJar(call, restCtx, jarsNow) ==
    _performRestRequest(call, "login", restCtx, LOGIN_URL, HTTP_POST,
                        loginData(restCtx), jarsNow)

\* the caller's callback is invoked
invoke(call, cb) ==
    [call EXCEPT
        !.pc = "done",
        !.log = Append(@, L(IF cb.err = Null THEN "callback:ok" ELSE "callback:err", "caller")),
        !.callbacks = Append(@, cb)]

\* 215-228 with no 'error' event emitted before the callback
received_noErrorEvent(call, kind, o) ==
    [call EXCEPT
        !.outcomes = Append(@, o),
        !.log = @ \o <<L(IF o.err # <<>> THEN "recv:fail" ELSE "recv:response", kind)>>
                  \o (IF requestCallback(o).emitted[1].name = "error" THEN <<>>
                      ELSE <<L("emit:response", kind)>>)]

\* doRequest's callback ran for a request of this call: the events it emitted
received(call, kind, o) ==
    [call EXCEPT
        !.outcomes = Append(@, o),
        !.log = @ \o <<L(IF o.err # <<>> THEN "recv:fail" ELSE "recv:response", kind),
                       L("emit:" \o requestCallback(o).emitted[1].name, kind)>>]

loginFailedOn(c) ==
    \E i \in CallIds : calls[i].ctx = c /\ \E p \in 1..Len(calls[i].log) :
        calls[i].log[p] = L("emit:error", "login")

FirstIdle(i) ==
    /\ calls[i].pc = "idle"
    /\ \A j \in 1..(i - 1) : calls[j].pc # "idle"

\* the contexts, jars and calls as one value, for the operators that model
\* a synchronous run over them
World == [ctx |-> ctx, jars |-> jars, calls |-> calls, wr |-> wr]

\* 357-373, up to the return of performRestRequest; the call is recorded
\* in slot i
performRestRequest(w, i, c, url, method, data) ==
    LET call == [IdleCall EXCEPT !.op = "performRestRequest", !.ctx = c, !.url = url,
                    !.method = method, !.data = data,
                    !.jarBefore = w.ctx[c].cookieJar,
                    !.loginFailedBefore = loginFailedOn(c)]
    IN  IF hasCookieJar(w.ctx[c])
        THEN [w EXCEPT !.calls[i] =
                _performRestRequest(call, "sub", w.ctx[c], url, method, data, w.jars)]
        ELSE LET restCtx == withNewJar(w.ctx[c], Len(w.jars) + 1)
                 jars2 == Append(w.jars, NewJar)
             IN  [w EXCEPT
                    !.jars = jars2,
                    !.ctx[c] = restCtx,
                    !.calls[i] =
                        IF loginRequired(restCtx)
                        THEN fillCookieJar(call, restCtx, jars2)
                        ELSE _performRestRequest(call, "sub", restCtx, url,
                                                 method, data, jars2)]

PerformRestRequest(i) ==
    /\ FirstIdle(i)
    /\ \E c \in Ctxs, inp \in NetInputs :
        LET w == performRestRequest(World, i, c, API_URL, inp.method, inp.data)
        IN  /\ ctx' = w.ctx
            /\ jars' = w.jars
            /\ calls' = w.calls
    /\ UNCHANGED <<rq, wr, enc>>

\* the server's session cookie of a successful login is stored in the jar
\* the login request carried
storeSession(jarsNow, j, o) ==
    IF j # 0 /\ o.err = <<>> /\ ~isErrorStatus(o.response.statusCode)
    THEN [jarsNow EXCEPT ![j].session = TRUE]
    ELSE jarsNow

\* 215-239 for the login request, then 368-372
loginResponse(w, i, o) ==
    LET cb == requestCallback(o).callback
        call == received(w.calls[i], "login", o)
        jars2 == storeSession(w.jars, call.sent[Len(call.sent)].jar, o)
    IN  [w EXCEPT
            !.jars = jars2,
            !.calls[i] =
                IF fillFailed(cb.err)
                THEN invoke(call, Callback(cb.err, Undefined, Undefined, 1))
                ELSE _performRestRequest(call, "sub", w.ctx[call.ctx], call.url,
                                         call.method, call.data, jars2)]

LoginResponse(i) ==
    /\ calls[i].pc = "login"
    /\ calls[i].op = "performRestRequest"
    /\ \E o \in NetOutcomes :
        LET w == loginResponse(World, i, o)
        IN  /\ jars' = w.jars
            /\ calls' = w.calls
    /\ UNCHANGED <<rq, ctx, wr, enc>>

\* api.content.js 469-545, up to the return of downloadFile: the request is
\* made with the context's jar, no 'request' event is emitted
downloadFile(call, restCtx, jarsNow) ==
    [call EXCEPT
        !.pc = "download",
        !.log = Append(@, L("send", "download")),
        !.sent = Append(@,
            [kind    |-> "download",
             url     |-> restCtx.host \o DOWNLOAD_URL,
             method  |-> HTTP_GET,
             jar     |-> restCtx.cookieJar,
             session |-> IF restCtx.cookieJar = 0 THEN FALSE
                         ELSE jarsNow[restCtx.cookieJar].session,
             headers |-> <<>>,
             host    |-> restCtx.hostHeader,
             req     |-> doRequest(HTTP_GET, <<>>)]),
        !.dl = [called |-> FALSE, response |-> Null, listeners |-> TRUE, req |-> "pending"]]

\* api.content.js 469 and 548-567, up to the return of download
Download(i) ==
    /\ FirstIdle(i)
    /\ \E c \in Ctxs :
        LET call == [IdleCall EXCEPT !.op = "download", !.ctx = c, !.method = HTTP_GET,
                        !.jarBefore = ctx[c].cookieJar,
                        !.loginFailedBefore = loginFailedOn(c)]
        IN  IF hasCookieJar(ctx[c])
            THEN /\ calls' = [calls EXCEPT ![i] = downloadFile(call, ctx[c], jars)]
                 /\ UNCHANGED <<ctx, jars>>
            ELSE LET restCtx == withNewJar(ctx[c], Len(jars) + 1)
                     jars2 == Append(jars, NewJar)
                 IN  /\ jars' = jars2
                     /\ ctx' = [ctx EXCEPT ![c] = restCtx]
                     /\ calls' = [calls EXCEPT ![i] =
                            IF loginRequired(restCtx)
                            THEN fillCookieJar(call, restCtx, jars2)
                            ELSE downloadFile(call, restCtx, jars2)]
    /\ UNCHANGED <<rq, wr, enc>>

\* 215-239 for the login request, then api.content.js 562-566
DownloadLoginResponse(i) ==
    /\ calls[i].pc = "login"
    /\ calls[i].op = "download"
    /\ \E o \in NetOutcomes :
        LET cb == requestCallback(o).callback
            call == received(calls[i], "login", o)
            jars2 == storeSession(jars, call.sent[Len(call.sent)].jar, o)
        IN  /\ jars' = jars2
            /\ calls' = [calls EXCEPT ![i] =
                    IF fillFailed(cb.err)
                    THEN invoke(call, Callback(cb.err, Undefined, Undefined, 1))
                    ELSE downloadFile(call, ctx[call.ctx], jars2)]
    /\ UNCHANGED <<rq, ctx, wr, enc>>

\* the download's callback, guarded by `called`
downloadCallback(call, cb) ==
    IF call.dl.called THEN call
    ELSE [call EXCEPT
            !.dl.called = TRUE,
            !.log = Append(@, L(IF cb.err = Null THEN "callback:ok" ELSE "callback:err",
                                "caller")),
            !.callbacks = Append(@, cb)]

\* api.content.js 530-532: request_.on('response')
DownloadOnResponse(i) ==
    /\ calls[i].pc = "download"
    /\ calls[i].dl.req = "pending"
    /\ \E s \in DownloadStatuses :
        calls' = [calls EXCEPT ![i] =
            [calls[i] EXCEPT !.dl.response = Response(s, ""), !.dl.req = "responded",
                             !.log = Append(@, L("recv:response", "download"))]]
    /\ UNCHANGED <<rq, ctx, jars, wr, enc>>

\* api.content.js 535 with every status taken for a 200 or a 204
aint200or204_never(code) == FALSE

\* api.content.js 535
aint200or204(code) == code \notin {200, 204}

\* api.content.js 534-544: request_.on('end')
DownloadOnEnd(i) ==
    /\ calls[i].pc = "download"
    /\ calls[i].dl.req = "responded"
    /\ LET call == [calls[i] EXCEPT !.dl.req = "ended"]
       IN  calls' = [calls EXCEPT ![i] =
                IF aint200or204(call.dl.response.statusCode)
                THEN downloadCallback(call,
                        Callback([code |-> call.dl.response.statusCode,
                                  msg |-> "Unable to download the file."],
                                 Undefined, Undefined, 1))
                ELSE call]
    /\ UNCHANGED <<rq, ctx, jars, wr, enc>>

\* api.content.js 497-505: writeStream.once('close'); the stream the request
\* is piped to is closed after the request has ended
WriteStreamClose(i) ==
    /\ calls[i].pc = "download"
    /\ calls[i].dl.listeners
    /\ calls[i].dl.req = "ended"
    /\ calls' = [calls EXCEPT ![i] =
            downloadCallback([calls[i] EXCEPT !.dl.listeners = FALSE],
                             Callback(Null, Undefined, calls[i].dl.response, 2))]
    /\ UNCHANGED <<rq, ctx, jars, wr, enc>>

\* api.content.js 507-519: writeStream.once('error'), at any time
WriteStreamError(i) ==
    /\ calls[i].pc = "download"
    /\ calls[i].dl.listeners
    /\ calls' = [calls EXCEPT ![i] =
            downloadCallback([calls[i] EXCEPT !.dl.listeners = FALSE],
                             Callback([code |-> "EACCES", msg |-> "write failed"],
                                      Undefined, calls[i].dl.response, 2))]
    /\ UNCHANGED <<rq, ctx, jars, wr, enc>>

\* 215-239 for the requested call: the caller's callback is doRequest's
requestResponse(w, i, o) ==
    [w EXCEPT !.calls[i] =
        invoke(received(w.calls[i], "sub", o), requestCallback(o).callback)]

RequestResponse(i) ==
    /\ calls[i].pc = "sub"
    /\ calls[i].op = "performRestRequest"
    /\ \E o \in NetOutcomes : calls' = requestResponse(World, i, o).calls
    /\ UNCHANGED <<rq, ctx, jars, wr, enc>>

SHIBBOLETH_URL == "/api/auth/shibboleth/sp/callback"

\* the attributes the application passes for a context
attributesOf(c) == [remote_user |-> "user-at-" \o c]

\* api.authentication.js 271 with the attributes put where every context
\* finds them
setAdditionalHeaders_shared(ctxs, c, attributes) ==
    [b \in DOMAIN ctxs |-> [ctxs[b] EXCEPT !.additionalHeaders = <<attributes>>]]

\* api.authentication.js 271: restCtx.additionalHeaders = attributes
setAdditionalHeaders(ctxs, c, attributes) ==
    [ctxs EXCEPT ![c].additionalHeaders = <<attributes>>]

\* api.authentication.js 273: delete restCtx.additionalHeaders
deleteAdditionalHeaders(ctxs, c) ==
    [ctxs EXCEPT ![c].additionalHeaders = <<>>]

\* api.authentication.js 270-272, up to the return of shibbolethSPCallback
shibbolethSPCallback(w, i, c, attributes) ==
    LET w1 == [w EXCEPT !.ctx = setAdditionalHeaders(w.ctx, c, attributes)]
        w2 == performRestRequest(w1, i, c, SHIBBOLETH_URL, HTTP_GET, <<>>)
    IN  [w2 EXCEPT !.calls[i].op = "shibbolethSPCallback"]

\* api.authentication.js 272-275: the callback of the request
shibbolethSPCallback_onResponse(w, i) ==
    [w EXCEPT !.ctx = deleteAdditionalHeaders(w.ctx, w.calls[i].ctx)]

ShibbolethSPCallback(i) ==
    /\ FirstIdle(i)
    /\ \E c \in Ctxs :
        LET w == shibbolethSPCallback(World, i, c, attributesOf(c))
        IN  /\ ctx' = w.ctx
            /\ jars' = w.jars
            /\ calls' = w.calls
    /\ UNCHANGED <<rq, wr, enc>>

\* the response to the lazy login of shibbolethSPCallback: a failed login
\* ends the call through the same callback
ShibbolethLoginResponse(i) ==
    /\ calls[i].pc = "login"
    /\ calls[i].op = "shibbolethSPCallback"
    /\ \E o \in NetOutcomes :
        LET w1 == loginResponse(World, i, o)
            w == IF w1.calls[i].pc = "done"
                 THEN shibbolethSPCallback_onResponse(w1, i) ELSE w1
        IN  /\ ctx' = w.ctx
            /\ jars' = w.jars
            /\ calls' = w.calls
    /\ UNCHANGED <<rq, wr, enc>>

\* the response to the request of shibbolethSPCallback
ShibbolethResponse(i) ==
    /\ calls[i].pc = "sub"
    /\ calls[i].op = "shibbolethSPCallback"
    /\ \E o \in NetOutcomes :
        LET w == shibbolethSPCallback_onResponse(requestResponse(World, i, o), i)
        IN  /\ ctx' = w.ctx
            /\ calls' = w.calls
    /\ UNCHANGED <<rq, jars, wr, enc>>

Next ==
    \/ \E i \in CallIds : PerformRestRequest(i)
    \/ \E i \in CallIds : LoginResponse(i)
    \/ \E i \in CallIds : RequestResponse(i)
    \/ \E i \in CallIds : Download(i)
    \/ \E i \in CallIds : DownloadLoginResponse(i)
    \/ \E i \in CallIds : DownloadOnResponse(i)
    \/ \E i \in CallIds : DownloadOnEnd(i)
    \/ \E i \in CallIds : WriteStreamClose(i)
    \/ \E i \in CallIds : WriteStreamError(i)
    \/ \E i \in CallIds : ShibbolethSPCallback(i)
    \/ \E i \in CallIds : ShibbolethLoginResponse(i)
    \/ \E i \in CallIds : ShibbolethResponse(i)

Init ==
    /\ rq = RqOff
    /\ ctx \in {f \in [Ctxs -> {RestContext("http://a", <<>>), RestContext("http://a", <<"alice">>),
                                RestContext("http://b", <<>>), RestContext("http://b", <<"bob">>)}] :
                    /\ f["A"].host = "http://a"
                    /\ f["B"].host = "http://b"}
    /\ jars = <<>>
    /\ calls = [i \in CallIds |-> IdleCall]
    /\ wr = WrOff
    /\ enc = EncOff

InitReq ==
    /\ rq \in {RqNew(m, d) : m \in Methods, d \in InputData}
    /\ ctx = [c \in Ctxs |-> RestContext("http://a", <<>>)]
    /\ jars = <<>>
    /\ calls = [i \in CallIds |-> IdleCall]
    /\ wr = WrOff
    /\ enc = EncOff

Spec == Init /\ [][Next]_vars
SpecReq == InitReq /\ [][NextReq]_vars

(***************************************************************************)
(* SpecWrap: one wrapper call (group, user, tenant, admin and transfer      *)
(* wrappers) on context "A", made of performRestRequest calls               *)
(***************************************************************************)
MaxClock == 300       \* the clock stops here (ms)

\* the property `picture` of a parsed profile: <<>> when the profile has none
pictureOf(body) ==
    IF ~body.json THEN <<>>
    ELSE IF body.text = JSON_PICTURE_SMALL
         THEN <<[z \in {"small"} |-> "/pics/small.jpg"]>>
    ELSE IF body.text = JSON_PICTURE_EMPTY
         THEN <<[z \in {} |-> ""]>>
    ELSE <<>>

WrapIdle ==
    [pc |-> "idle", op |-> "none", size |-> <<>>, selectedArea |-> <<>>,
     internalBaseUrl |-> <<>>, alias |-> <<>>, callbacks |-> <<>>, cbAt |-> <<>>, respAt |-> <<>>,
     timer |-> <<>>, now |-> 0, before |-> RestContext("none", <<>>)]

\* the wrapper's caller gets its callback invoked
callerCallback(w, cb) ==
    [w EXCEPT !.wr.callbacks = Append(@, cb),
              !.wr.cbAt = Append(@, w.wr.now),
              !.wr.pc = "done"]

\* an exception leaves the handler: nothing more is done for the wrapper
throws(w) == [w EXCEPT !.wr.pc = "threw"]

\* part_001 287 and api.user.js 345
sizeMissing(size) == size = <<>>

\* part_001 297 `not(group.picture[size])`, api.user.js 352
\* `isNotDefined(user.picture[size])`
hasNoPicture(picture, size) == size \notin DOMAIN picture

IsGroupOp(op) == op \in {"Group.downloadPicture", "Group.uploadPicture"}

\* `/api/group/${encodeURIComponent(groupId)}`, `/api/user/${...}`
profileUrl(op) == IF IsGroupOp(op) THEN "/api/group/g1" ELSE "/api/user/u1"

\* part_001 298-301, api.user.js 353
noPictureError(op) ==
    [code |-> 404,
     msg |-> IF IsGroupOp(op) THEN "This group has no picture."
             ELSE "This user has no picture."]

\* part_001 286-293 and api.user.js 344-349, up to the return of downloadPicture
downloadPicture(w) ==
    IF sizeMissing(w.wr.size)
    THEN callerCallback(w, Callback([code |-> 400, msg |-> "Missing size parameter"],
                                    Undefined, Undefined, 1))
    ELSE performRestRequest(w, 1, "A", profileUrl(w.wr.op), HTTP_GET, <<>>)

\* part_001 294-306 and api.user.js 349-358: the callback of the profile request;
\* reading [size] of a missing `picture` throws a TypeError
downloadPicture_onProfile(w, cb) ==
    IF cb.err # Null
    THEN callerCallback(w, Callback(cb.err, Undefined, Undefined, 1))
    ELSE IF pictureOf(cb.body) = <<>>
    THEN throws(w)
    ELSE IF hasNoPicture(pictureOf(cb.body)[1], w.wr.size[1])
    THEN callerCallback(w, Callback(noPictureError(w.wr.op), Undefined, Undefined, 1))
    ELSE performRestRequest(w, 2, "A", pictureOf(cb.body)[1][w.wr.size[1]],
                            HTTP_GET, <<>>)

\* a parameter bag of plain values
Params(keys) == <<[k \in keys |-> V(k \o "-value")]>>

pictureUrl(op) == profileUrl(op) \o "/picture"
CROP_URL == "/api/crop"

\* part_001 252 and api.user.js 310: isDefined(selectedArea)
areaGiven(selectedArea) == selectedArea # <<>>

\* part_001 250-273 and api.user.js 306-331, up to the return of uploadPicture
uploadPicture(w) ==
    performRestRequest(w, 1, "A", pictureUrl(w.wr.op), HTTP_POST,
                       <<[k \in {"file"} |-> V("fnStream")]>>)

\* api.crop.js cropPicture: one POST of the area to crop, the wrapper's
\* callback is the request's
cropPicture(w, i) ==
    performRestRequest(w, i, "A", CROP_URL, HTTP_POST,
                       Params({"principalId", "x", "y", "width"}))

\* part_001 258-262 and api.user.js 316-320 with the upload's error ignored
uploadPicture_onUpload_cropAnyway(w, cb) ==
    IF areaGiven(w.wr.selectedArea)
    THEN cropPicture(w, 2)
    ELSE callerCallback(w, cb)

\* part_001 258-262, 270 and api.user.js 316-320, 328: the callback
\* of the upload request
uploadPicture_onUpload(w, cb) ==
    IF areaGiven(w.wr.selectedArea)
    THEN IF cb.err # Null
         THEN callerCallback(w, Callback(cb.err, Undefined, Undefined, 1))
         ELSE cropPicture(w, 2)
    ELSE callerCallback(w, cb)

UploadPictureOps == {"Group.uploadPicture", "User.uploadPicture"}

\* part_003 20
WAIT_TIME == 100

\* setTimeout(callback, delay, ...args) with the delay ignored
setTimeout_zero(w, delay, cb) ==
    [w EXCEPT !.wr.timer = <<[due |-> w.wr.now, cb |-> cb]>>]

\* setTimeout(callback, delay, ...args): the timer is due `delay` ms from now
setTimeout(w, delay, cb) ==
    [w EXCEPT !.wr.timer = <<[due |-> w.wr.now + delay, cb |-> cb]>>]

\* part_003 191-197: opts = {}
createTenantParams ==
    <<[k \in {"alias", "displayName", "host", "emailDomains", "countryCode"} |->
        IF k \in {"emailDomains", "countryCode"} THEN V("undefined") ELSE V("str")]>>

\* part_003 231-236: tenantUpdates = {displayName}
updateTenantParams ==
    <<[k \in {"displayName", "host", "emailDomains", "countryCode"} |->
        IF k = "displayName" THEN V("str") ELSE V("undefined")]>>

\* part_003 254, 273: {aliases: [alias]}
aliasesParams == <<[k \in {"aliases"} |-> A(<<"str">>)]>>

\* part_003 198, 224-227, 254, 273
tenantUrl(op, alias) ==
    CASE op = "Tenants.createTenant" -> "/api/tenant/create"
      [] op = "Tenants.updateTenant" ->
            IF alias # <<>> THEN "/api/tenant/" \o alias[1] ELSE "/api/tenant"
      [] op = "Tenants.stopTenant" -> "/api/tenant/stop"
      [] op = "Tenants.startTenant" -> "/api/tenant/start"

tenantParams(op) ==
    CASE op = "Tenants.createTenant" -> createTenantParams
      [] op = "Tenants.updateTenant" -> updateTenantParams
      [] OTHER -> aliasesParams

\* part_003 189-198, 221-237, 253-254, 272-273, up to the return of the wrapper
tenantRequest(w) ==
    performRestRequest(w, 1, "A", tenantUrl(w.wr.op, w.wr.alias), HTTP_POST,
                       tenantParams(w.wr.op))

\* part_003 198-205: the callback of createTenant's request
createTenant_onResponse(w, cb) ==
    IF cb.err # Null
    THEN callerCallback(w, Callback(cb.err, Undefined, Undefined, 1))
    ELSE setTimeout(w, WAIT_TIME, Callback(cb.err, cb.body, Undefined, 2))

\* part_003 237-242, 254-261, 273-280: the callback of the request of
\* updateTenant, stopTenant and startTenant
tenant_onResponse(w, cb) ==
    IF cb.err # Null
    THEN callerCallback(w, Callback(cb.err, Undefined, Undefined, 1))
    ELSE setTimeout(w, WAIT_TIME, Callback(cb.err, Undefined, Undefined, 1))

\* api.admin.js 26 with every status taken for a 302
isNot302_never(statusCode) == FALSE

\* api.admin.js 26: compose(not, equals(302))
isNot302(statusCode) == statusCode # 302

SIGNED_URL == "/api/auth/signed"

\* api.admin.js 67-68: doSignedAuthentication up to its return, as the i-th
\* request of the wrapper, with context c
doSignedAuthentication(w, i, c, body) ==
    performRestRequest(w, i, c, SIGNED_URL, HTTP_POST, body)

\* api.admin.js 68-80: what the request's callback gives to the callback of
\* doSignedAuthentication
doSignedAuthentication_onResponse(cb) ==
    IF cb.err # Null
    THEN Callback(cb.err, Undefined, Undefined, 1)
    ELSE IF isNot302(cb.response.statusCode)
    THEN Callback([code |-> cb.response.statusCode, msg |-> "Unexpected response code"],
                  Undefined, Undefined, 1)
    ELSE Callback(Undefined, Undefined, Undefined, 0)

\* api.admin.js 41, 45
requestInfoUrl(op) ==
    IF op = "Admin.loginOnTenant" THEN "/api/auth/signed/tenant"
    ELSE "/api/auth/signed/become"

\* api.admin.js 40-46, 122-123, 140-141: getSigned...RequestInfo with the
\* admin context, up to the return of the wrapper
getSignedRequestInfo(w) ==
    performRestRequest(w, 1, "A", requestInfoUrl(w.wr.op), HTTP_GET,
                       Params({IF w.wr.op = "Admin.loginOnTenant" THEN "tenant"
                               ELSE "becomeUserId"}))

\* requestInfo.url and requestInfo.body of the parsed request info
urlOf(body) ==
    IF body.json /\ body.text = JSON_REQUEST_INFO
    THEN <<"https://t.oae.org:8443/api/auth/signed">> ELSE <<>>
bodyOf(body) ==
    IF body.json /\ body.text = JSON_REQUEST_INFO THEN Params({"signature"}) ELSE <<>>

\* new URL(url): its protocol and its host (with the port)
parseUrl(url) ==
    CASE url = "https://t.oae.org:8443/api/auth/signed" ->
            [protocol |-> "https:", host |-> "t.oae.org:8443"]

\* api.admin.js 100 with the internal base URL ignored
baseUrl_originOnly(parsedUrl, internalBaseUrl) ==
    parsedUrl.protocol \o "//" \o parsedUrl.host

\* api.admin.js 100: defaultTo(util.format('%s//%s', protocol, host), internalBaseUrl)
baseUrl(parsedUrl, internalBaseUrl) ==
    IF internalBaseUrl = <<>>
    THEN parsedUrl.protocol \o "//" \o parsedUrl.host
    ELSE internalBaseUrl[1]

\* model.js: new RestContext(host, {hostHeader, strictSSL}), without
\* credentials and without a cookie jar
newRestContext(host, hostHeader) ==
    [RestContext(host, <<>>) EXCEPT !.hostHeader = <<hostHeader>>]

\* the name of the context that _doSignedAuthenticationWithRequestInfo creates
SignedCtx == "S"

\* api.admin.js 97-105: _doSignedAuthenticationWithRequestInfo up to its
\* return; new URL throws on a request info without a URL
_doSignedAuthenticationWithRequestInfo(w, requestInfo) ==
    IF urlOf(requestInfo) = <<>>
    THEN throws(w)
    ELSE LET parsedUrl == parseUrl(urlOf(requestInfo)[1])
             authenticatingRestCtx ==
                newRestContext(baseUrl(parsedUrl, w.wr.internalBaseUrl), parsedUrl.host)
         IN  doSignedAuthentication(
                [w EXCEPT !.ctx = (SignedCtx :> authenticatingRestCtx) @@ w.ctx],
                2, SignedCtx, bodyOf(requestInfo))

\* api.admin.js 105-109: the callback given to doSignedAuthentication
_doSignedAuthenticationWithRequestInfo_onAuth(w, res) ==
    IF res.err \notin {Null, Undefined}
    THEN callerCallback(w, Callback(res.err, Undefined, Undefined, 1))
    ELSE callerCallback(w, Callback(Null, [restCtx |-> SignedCtx], Undefined, 2))

\* api.admin.js 123-127, 141-150: the callback of the request for the info
login_onRequestInfo(w, cb) ==
    IF cb.err # Null
    THEN callerCallback(w, Callback(cb.err, Undefined, Undefined, 1))
    ELSE _doSignedAuthenticationWithRequestInfo(w, cb.body)

LoginOps == {"Admin.loginAsUser", "Admin.loginOnTenant"}
AdminOps == LoginOps \cup {"Admin.doSignedAuthentication"}

\* api.transfer.js 61: RestUtil.RestRequest is the dispatch utility's
\* performRestRequest, the method is spelled 'get'
getTransferById(w) ==
    performRestRequest(w, 1, "A", "/api/transfer/u1", "get", Params({"originalUserId"}))

\* api.transfer.js 61-66: the callback of the request
getTransferById_onResponse(w, cb) ==
    IF cb.err # Null
    THEN callerCallback(w, Callback(cb.err, Undefined, Undefined, 1))
    ELSE callerCallback(w, Callback(Null, cb.body, Undefined, 2))

TransferOps == {"Transfer.getTransferById"}

TenantOps ==
    {"Tenants.createTenant", "Tenants.updateTenant", "Tenants.stopTenant",
     "Tenants.startTenant"}

DownloadPictureOps == {"Group.downloadPicture", "User.downloadPicture"}

\* `size` as the application passes it
Sizes == {<<>>, <<"small">>, <<"large">>}

WrapOps ==
    DownloadPictureOps \cup UploadPictureOps \cup TenantOps \cup AdminOps \cup TransferOps

\* the arguments the application may give to a wrapper
WrapArgs(op) ==
    {[size |-> z, selectedArea |-> a, internalBaseUrl |-> u, alias |-> t] :
        u \in IF op \in LoginOps THEN {<<>>, <<"http://10.0.0.1:2001">>} ELSE {<<>>},
        z \in IF op \in DownloadPictureOps THEN Sizes ELSE {<<>>},
        a \in IF op \in UploadPictureOps THEN {<<>>, <<"100x100+0+0">>} ELSE {<<>>},
        t \in IF op = "Tenants.updateTenant" THEN {<<>>, <<"t1">>} ELSE {<<>>}}

\* the synchronous part of the wrapper
wrapStart(w) ==
    CASE w.wr.op \in DownloadPictureOps -> downloadPicture(w)
      [] w.wr.op \in UploadPictureOps -> uploadPicture(w)
      [] w.wr.op \in TenantOps -> tenantRequest(w)
      [] w.wr.op = "Admin.doSignedAuthentication" ->
            doSignedAuthentication(w, 1, "A", Params({"signature"}))
      [] w.wr.op \in LoginOps -> getSignedRequestInfo(w)
      [] w.wr.op \in TransferOps -> getTransferById(w)

\* the callback the wrapper gave to its i-th performRestRequest
wrapOn(w, i, cb) ==
    CASE w.wr.op \in DownloadPictureOps /\ i = 1 -> downloadPicture_onProfile(w, cb)
      [] w.wr.op \in UploadPictureOps /\ i = 1 -> uploadPicture_onUpload(w, cb)
      [] w.wr.op = "Tenants.createTenant" -> createTenant_onResponse(w, cb)
      [] w.wr.op \in TenantOps -> tenant_onResponse(w, cb)
      [] w.wr.op = "Admin.doSignedAuthentication" ->
            callerCallback(w, doSignedAuthentication_onResponse(cb))
      [] w.wr.op \in TransferOps -> getTransferById_onResponse(w, cb)
      [] w.wr.op \in LoginOps /\ i = 1 -> login_onRequestInfo(w, cb)
      [] w.wr.op \in LoginOps /\ i = 2 ->
            _doSignedAuthenticationWithRequestInfo_onAuth(
                w, doSignedAuthentication_onResponse(cb))
      [] OTHER -> callerCallback(w, cb)

\* what the server may answer to the i-th request of the wrapper
WrapOutcomes(op, i) ==
    {[err |-> <<"ECONNREFUSED">>, response |-> Null],
     [err |-> <<>>, response |-> Response(400, "plain")]}
    \cup
    (CASE op \in DownloadPictureOps /\ i = 1 ->
            {[err |-> <<>>, response |-> Response(200, t)] :
                t \in {JSON_ID, JSON_PICTURE_SMALL, JSON_PICTURE_EMPTY}}
       [] op \in UploadPictureOps \cup TenantOps \cup TransferOps ->
            {[err |-> <<>>, response |-> Response(200, JSON_ID)]}
       [] op \in LoginOps /\ i = 1 ->
            {[err |-> <<>>, response |-> Response(200, JSON_REQUEST_INFO)]}
       [] op \in AdminOps ->
            {[err |-> <<>>, response |-> Response(st, "")] : st \in {200, 302}}
       [] OTHER -> {[err |-> <<>>, response |-> Response(200, "plain")]})

Commit(w) ==
    /\ ctx' = w.ctx
    /\ jars' = w.jars
    /\ calls' = w.calls
    /\ wr' = w.wr

WrapCall ==
    /\ wr.pc = "idle"
    /\ \E op \in WrapOps :
        \E args \in WrapArgs(op) :
            Commit(wrapStart([World EXCEPT
                !.wr = [wr EXCEPT !.pc = "running", !.op = op, !.size = args.size,
                                  !.selectedArea = args.selectedArea,
                                  !.internalBaseUrl = args.internalBaseUrl,
                                  !.alias = args.alias,
                                  !.before = ctx["A"]]]))
    /\ UNCHANGED <<rq, enc>>

\* the response to the lazy login of the wrapper's i-th performRestRequest
WrapLoginResponse(i) ==
    /\ wr.pc = "running"
    /\ calls[i].pc = "login"
    /\ \E o \in NetOutcomes :
        LET w == loginResponse(World, i, o)
        IN  Commit(IF w.calls[i].pc = "done"
                   THEN wrapOn([w EXCEPT !.wr.respAt = Append(@, wr.now)], i,
                               w.calls[i].callbacks[1])
                   ELSE w)
    /\ UNCHANGED <<rq, enc>>

\* the response to the wrapper's i-th performRestRequest
WrapResponse(i) ==
    /\ wr.pc = "running"
    /\ calls[i].pc = "sub"
    /\ \E o \in WrapOutcomes(wr.op, i) :
        LET w == requestResponse(World, i, o)
        IN  Commit(wrapOn([w EXCEPT !.wr.respAt = Append(@, wr.now)], i,
                          w.calls[i].callbacks[1]))
    /\ UNCHANGED <<rq, enc>>

\* the time that passes between two events
Ticks == {50, 100}

\* time passes while the wrapper waits for a response or for its timer
Tick ==
    /\ wr.pc = "running"
    /\ \E d \in Ticks :
        /\ wr.now + d =< MaxClock
        /\ wr' = [wr EXCEPT !.now = @ + d]
    /\ UNCHANGED <<rq, ctx, jars, calls, enc>>

\* the timer of setTimeout expires: its callback is called with its arguments
TimerFire ==
    /\ wr.pc = "running"
    /\ wr.timer # <<>>
    /\ wr.now >= wr.timer[1].due
    /\ Commit(callerCallback([World EXCEPT !.wr.timer = <<>>], wr.timer[1].cb))
    /\ UNCHANGED <<rq, enc>>

NextWrap ==
    \/ WrapCall
    \/ \E i \in CallIds : WrapLoginResponse(i)
    \/ \E i \in CallIds : WrapResponse(i)
    \/ Tick
    \/ TimerFire

\* context "A" is anonymous, has credentials, or was logged in by an earlier call
InitWrap ==
    /\ rq = RqOff
    /\ enc = EncOff
    /\ \E user \in {<<>>, <<"alice">>}, jar \in {0, 1} :
        /\ ctx = [c \in Ctxs |->
                    IF c = "A" THEN [RestContext("http://a", user) EXCEPT !.cookieJar = jar]
                    ELSE RestContext("http://b", <<>>)]
        /\ jars = IF jar = 0 THEN <<>> ELSE <<[session |-> user # <<>>]>>
    /\ calls = [i \in CallIds |-> IdleCall]
    /\ wr = WrapIdle

SpecWrap == InitWrap /\ [][NextWrap]_vars

(***************************************************************************)
(* SpecEnc: encodeURIComponent of the dispatch utility applied to one path *)
(* identifier, and the path a wrapper builds from the result.              *)
(* Texts are sequences of characters.                                      *)
(***************************************************************************)

MaxIdLen == 4         \* the longest path identifier

\* the characters of an identifier: unreserved ones, reserved ones, one
\* outside ASCII, and a lone surrogate
IdChars == {"n", "u", "l", "/", " ", "e-acute", "lone-surrogate"}

Str(chars) == [str |-> chars]
EncInputs == {Null, Undefined} \cup {Str(t) : t \in SeqsUpTo(IdChars, MaxIdLen)}

\* String(x): the text of the argument
ToText(x) ==
    IF x = Null THEN <<"n", "u", "l", "l">>
    ELSE IF x = Undefined THEN <<"u", "n", "d", "e", "f", "i", "n", "e", "d">>
    ELSE x.str

\* the escape of one character: the bytes of its UTF-8 encoding unless the
\* character is unreserved
escape(ch) ==
    CASE ch = "/" -> <<"%", "2", "F">>
      [] ch = " " -> <<"%", "2", "0">>
      [] ch = "e-acute" -> <<"%", "C", "3", "%", "A", "9">>
      [] OTHER -> <<ch>>

RECURSIVE escapeAll(_)
escapeAll(t) == IF t = <<>> THEN <<>> ELSE escape(Head(t)) \o escapeAll(Tail(t))

Returned(t) == [threw |-> FALSE, value |-> t]
URIError == [threw |-> TRUE, value |-> <<>>]

\* the native encodeURIComponent: a URIError on a lone surrogate
nativeEncodeURIComponent(x) ==
    IF \E n \in 1..Len(ToText(x)) : ToText(x)[n] = "lone-surrogate"
    THEN URIError
    ELSE Returned(escapeAll(ToText(x)))

\* 100
emptyString == <<>>

\* 134 without the test for null
encodeURI_native(uriComponent) == nativeEncodeURIComponent(uriComponent)

\* 134: exported as encodeURIComponent; isNull is equals(null) (108)
encodeURI(uriComponent) ==
    IF uriComponent = Null THEN Returned(emptyString)
    ELSE nativeEncodeURIComponent(uriComponent)

\* part_001 228: `/api/user/${RestUtil.encodeURIComponent(userId)}/memberships`
membershipsPath(encoded) ==
    <<"/", "a", "p", "i", "/", "u", "s", "e", "r", "/">> \o encoded
        \o <<"/", "m", "e", "m", "b", "e", "r", "s", "h", "i", "p", "s">>

\* the wrapper evaluates encodeURIComponent(userId)
Encode ==
    /\ enc.phase = "given"
    /\ enc' = [enc EXCEPT !.phase = IF encodeURI(enc.input).threw THEN "threw"
                                    ELSE "encoded",
                          !.out = encodeURI(enc.input)]
    /\ UNCHANGED <<rq, ctx, jars, calls, wr>>

\* the wrapper puts the result in the path of its request
BuildPath ==
    /\ enc.phase = "encoded"
    /\ enc' = [enc EXCEPT !.phase = "path", !.path = membershipsPath(enc.out.value)]
    /\ UNCHANGED <<rq, ctx, jars, calls, wr>>

NextEnc == Encode \/ BuildPath

InitEnc ==
    /\ enc \in {[phase |-> "given", input |-> x, out |-> Returned(<<>>), path |-> <<>>] :
                    x \in EncInputs}
    /\ rq = RqOff
    /\ ctx = [c \in Ctxs |-> RestContext("http://a", <<>>)]
    /\ jars = <<>>
    /\ calls = [i \in CallIds |-> IdleCall]
    /\ wr = WrOff

SpecEnc == InitEnc /\ [][NextEnc]_vars

(***************************************************************************)
(* Properties                                                              *)
(***************************************************************************)
Positions(call, e) == {p \in 1..Len(call.log) : call.log[p] = e}
Sends(call, kind) == Cardinality(Positions(call, L("send", kind)))
Started(call) == call.pc # "idle"

\* a performRestRequest call that found its context with a username and
\* without a cookie jar
LazyCall(call) ==
    /\ call.op = "performRestRequest"
    /\ call.jarBefore = 0
    /\ ctx[call.ctx].username # <<>>

IsLoginRequest(call, r) ==
    /\ r.kind = "login"
    /\ r.method = "POST"
    /\ r.url = ctx[call.ctx].host \o "/api/auth/login"
    /\ r.req.form = <<[k \in {"username", "password"} |->
                        IF k = "username" THEN V(ctx[call.ctx].username[1])
                        ELSE V(ctx[call.ctx].userPassword[1])]>>

\* C1: a performRestRequest call on a context with a username and no cookie
\* jar first sends the login request (POST /api/auth/login with the
\* context's username and password), and sends the requested call only
\* after the login's successful response was received.
C1_LoginBeforeRequest ==
    \A i \in CallIds :
        LET call == calls[i] IN
        (LazyCall(call) /\ Started(call)) =>
            /\ IsLoginRequest(call, call.sent[1])
            /\ \A p \in Positions(call, L("send", "sub")) :
                \E q \in Positions(call, L("send", "login")) :
                    \E r \in Positions(call, L("emit:response", "login")) :
                        q < r /\ r < p

C1_Witness ==
    \E i \in CallIds :
        /\ LazyCall(calls[i])
        /\ Positions(calls[i], L("send", "sub")) # {}

\* C2: on a context with a username, whatever the interleaving of the
\* performRestRequest calls, every requested (substantive) call is sent
\* after the context's login has completed successfully.
C2_AuthBeforeAnyRequest ==
    \A i \in CallIds :
        LET call == calls[i] IN
        (call.op = "performRestRequest" /\ ctx[call.ctx].username # <<>>) =>
            \A k \in 1..Len(call.sent) :
                call.sent[k].kind = "sub" => call.sent[k].session

\* C3: doRequest classifies a response by its status alone: from 400 on the
\* callback gets {code: status, msg: body} and nothing else, below 400
\* (3xx too) it gets a null error, the body and the response.
C3_StatusClassification ==
    (rq.phase = "done" /\ rq.outcome.err = <<>>) =>
        LET resp == rq.outcome.response
            cb == rq.callbacks[1]
        IN  /\ Len(rq.callbacks) = 1
            /\ IF resp.statusCode >= 400
               THEN cb = Callback([code |-> resp.statusCode, msg |-> resp.body],
                                  Undefined, Undefined, 1)
               ELSE /\ cb.err = Null
                    /\ cb.body.text = resp.body
                    /\ cb.response = resp

C3_Witness ==
    /\ rq.phase = "done"
    /\ rq.outcome.err = <<>>
    /\ rq.outcome.response.statusCode = 399
    /\ rq.callbacks[1].err = Null

\* C4: on a transport failure doRequest calls back with {code: 500, msg: a
\* string} and no result; every error doRequest delivers is a plain
\* {code, msg} pair.
C4_TransportFailure ==
    rq.phase = "done" =>
        LET cb == rq.callbacks[1] IN
        /\ Len(rq.callbacks) = 1
        /\ cb.err # Null => DOMAIN cb.err = {"code", "msg"}
        /\ rq.outcome.err # <<>> =>
            /\ cb.err # Null
            /\ cb.err.code = 500
            /\ cb.err.msg \in STRING
            /\ cb.body = Undefined
            /\ cb.response = Undefined

C4_Witness ==
    /\ rq.phase = "done"
    /\ rq.outcome.err = <<"ETIMEDOUT">>
    /\ rq.callbacks[1].err.code = 500

ErrorOf(o) ==
    IF o.err # <<>>
    THEN [code |-> 500,
          msg |-> "Something went wrong trying to contact the server:\n"
                  \o o.err[1] \o "\nError: " \o o.err[1]]
    ELSE [code |-> o.response.statusCode, msg |-> o.response.body]

LoginFailed(call) == Positions(call, L("emit:error", "login")) # {}

\* C5: when the lazy login of a performRestRequest call fails (transport
\* failure or status >= 400), the caller's callback gets the login's error
\* and the requested call is never sent.
C5_LoginFailure ==
    \A i \in CallIds :
        LET call == calls[i] IN
        (call.op = "performRestRequest" /\ LoginFailed(call)) =>
            /\ call.callbacks = <<Callback(ErrorOf(call.outcomes[1]), Undefined, Undefined, 1)>>
            /\ Sends(call, "sub") = 0
            /\ Len(call.sent) = 1

C5_Witness ==
    \E i \in CallIds :
        /\ calls[i].op = "performRestRequest"
        /\ LoginFailed(calls[i])
        /\ calls[i].pc = "done"
        /\ calls[i].outcomes[1].err = <<>>

C7_NoRetries ==
    \A i \in CallIds :
        LET call == calls[i] IN
        call.op = "performRestRequest" =>
            /\ Sends(call, "login") =< 1
            /\ Sends(call, "sub") =< 1
            /\ Len(call.sent) =< 2
            /\ \A p, q \in 1..Len(call.log) :
                (call.log[p].ev = "emit:error" /\ p < q) => call.log[q].ev # "send"

C7_Witness ==
    \E i \in CallIds :
        /\ calls[i].op = "performRestRequest"
        /\ calls[i].pc = "done"
        /\ Len(calls[i].sent) = 2
        /\ Positions(calls[i], L("emit:error", "sub")) # {}

anyStream(data) ==
    \E k \in DOMAIN data :
        \E n \in 1..Len(data[k].items) : data[k].items[n] = "stream"

Carriers(sent) ==
    {c \in {"qs", "form", "multipart"} :
        \/ c = "qs" /\ sent.qs # <<>>
        \/ c = "form" /\ sent.form # <<>>
        \/ c = "multipart" /\ sent.multipart # <<>>}

\* C8: a request with non-empty sanitized parameters carries them in exactly
\* one place: the query string for GET, a form-encoded body for another
\* method without a stream value, a multipart body when a value is a stream.
C8_OneCarrier ==
    (rq.phase \in {"sent", "done"} /\ isNotEmpty(rq.sent.data)) =>
        Carriers(rq.sent) =
            IF rq.method = "GET" THEN {"qs"}
            ELSE IF anyStream(rq.sent.data) THEN {"multipart"}
            ELSE {"form"}

\* a stream given in one of the four ways
givesStream(v) ==
    IF v.arr
    THEN \E n \in 1..Len(v.items) : v.items[n] \in {"stream", "fnStream"}
    ELSE v.items[1] \in {"stream", "fnStream"}

\* C9: doRequest sends a multipart request if and only if a parameter value
\* is a stream: given directly, returned by a function value, given as an
\* element of an array, or returned by a function element of an array.
C9_MultipartIffStream ==
    rq.phase \in {"sent", "done"} =>
        LET bag == IF rq.input = <<>> THEN EmptyBag ELSE rq.input[1] IN
        (rq.sent.multipart # <<>>) <=> (\E k \in DOMAIN bag : givesStream(bag[k]))

LoginsOn(c) ==
    Cardinality({<<i, k>> \in CallIds \X (1..2) :
        /\ calls[i].ctx = c
        /\ k =< Len(calls[i].sent)
        /\ calls[i].sent[k].kind = "login"})

\* C10: a call of performRestRequest (or download) on a context without a
\* cookie jar leaves the context with one; a cookie jar, once set, is never
\* replaced or removed; at most one login request is ever sent for a
\* context.
C10_JarOnceLoginOnce ==
    /\ [](\A i \in CallIds : Started(calls[i]) => ctx[calls[i].ctx].cookieJar # 0)
    /\ [](\A c \in Ctxs : LoginsOn(c) =< 1)
    /\ [][\A c \in Ctxs : ctx[c].cookieJar # 0 => ctx'[c].cookieJar = ctx[c].cookieJar]_vars

C10_Witness ==
    \E i, j \in CallIds :
        /\ i < j
        /\ calls[i].ctx = calls[j].ctx
        /\ calls[i].jarBefore = 0
        /\ calls[j].jarBefore # 0
        /\ ctx[calls[i].ctx].cookieJar = calls[j].jarBefore
        /\ LoginFailed(calls[i])
        /\ Started(calls[j])

\* C11: on a context without a username performRestRequest sends no login
\* request: the requested call is the first and only request of the call.
C11_AnonymousNoLogin ==
    \A i \in CallIds :
        LET call == calls[i] IN
        (call.op = "performRestRequest" /\ ctx[call.ctx].username = <<>>) =>
            /\ Sends(call, "login") = 0
            /\ Len(call.sent) = 1
            /\ call.sent[1].kind = "sub"
            /\ call.sent[1].url = ctx[call.ctx].host \o call.url

C11_Witness ==
    \E i \in CallIds :
        /\ calls[i].op = "performRestRequest"
        /\ ctx[calls[i].ctx].username = <<>>
        /\ calls[i].jarBefore = 0
        /\ calls[i].pc = "done"

EventsOf(call, kind) ==
    {p \in 1..Len(call.log) :
        call.log[p] \in {L("emit:response", kind), L("emit:error", kind)}}

\* C12: for every request sent through performRestRequest, the lazy login
\* included, 'request' is emitted before the request is sent, and exactly
\* one of 'response' and 'error' is emitted when it ends: 'response' when
\* the callback gets a success, 'error' when it gets an error, in both cases
\* before the caller's callback is invoked.
C12_EventsAroundRequest ==
    \A i \in CallIds :
        LET call == calls[i] IN
        call.op = "performRestRequest" =>
            /\ \A p \in 1..Len(call.log) :
                call.log[p].ev = "send" =>
                    p > 1 /\ call.log[p - 1] = L("emit:request", call.log[p].kind)
            /\ \A kind \in {"login", "sub"} :
                /\ Cardinality(EventsOf(call, kind)) =< 1
                /\ \A p \in 1..Len(call.log) :
                    call.log[p].kind = kind /\ call.log[p].ev \in {"recv:fail", "recv:response"}
                        => EventsOf(call, kind) = {p + 1}
            /\ \A q \in 1..Len(call.log) :
                /\ call.log[q].ev = "callback:err" =>
                        q > 1 /\ call.log[q - 1].ev = "emit:error"
                /\ call.log[q].ev = "callback:ok" =>
                        q > 1 /\ call.log[q - 1] = L("emit:response", "sub")

C12_Witness ==
    \E i \in CallIds :
        /\ calls[i].op = "performRestRequest"
        /\ calls[i].pc = "done"
        /\ EventsOf(calls[i], "login") # {}
        /\ Positions(calls[i], L("emit:error", "sub")) # {}

SubRequests(call) == {k \in 1..Len(call.sent) : call.sent[k].kind = "sub"}
Succeeded(call) == call.pc = "done" /\ call.callbacks[1].err = Null

\* C13: Group.downloadPicture and User.downloadPicture: without a size the
\* callback gets {code: 400} and nothing is requested; when the fetched
\* profile has no picture for the size, or no picture at all, the callback
\* gets {code: 404} and no second request is made; otherwise one further GET
\* to the picture's URL is made, after the profile GET succeeded.
C13_DownloadPicture ==
    wr.op \in DownloadPictureOps =>
        /\ wr.size = <<>> =>
            /\ Len(wr.callbacks) = 1
            /\ wr.callbacks[1].err.code = 400
            /\ \A i \in CallIds : ~Started(calls[i])
        /\ Started(calls[2]) =>
            /\ Succeeded(calls[1])
            /\ calls[2].method = "GET"
            /\ calls[2].url = "/pics/small.jpg"
        /\ (wr.size # <<>> /\ Succeeded(calls[1])) =>
            LET picture == pictureOf(calls[1].callbacks[1].body) IN
            IF picture = <<>> \/ wr.size[1] \notin DOMAIN picture[1]
            THEN /\ Len(wr.callbacks) = 1
                 /\ wr.callbacks[1].err # Null
                 /\ wr.callbacks[1].err.code = 404
                 /\ ~Started(calls[2])
            ELSE Started(calls[2])

AllEnded == \A i \in CallIds : calls[i].pc \in {"idle", "done"}

\* C14: uploadPicture (group and user): with a selectedArea the crop
\* request is made only after the upload succeeded, and a failed upload
\* gives its error to the callback with no crop request; without a
\* selectedArea only the upload is requested.  The callback is invoked
\* exactly once.
C14_UploadPicture ==
    wr.op \in UploadPictureOps =>
        /\ Started(calls[1])
        /\ calls[1].url = (IF wr.op = "Group.uploadPicture" THEN "/api/group/g1/picture"
                           ELSE "/api/user/u1/picture")
        /\ Started(calls[2]) =>
            /\ wr.selectedArea # <<>>
            /\ Succeeded(calls[1])
            /\ calls[2].url = "/api/crop"
        /\ (wr.selectedArea # <<>> /\ Succeeded(calls[1])) => Started(calls[2])
        /\ (calls[1].pc = "done" /\ ~Succeeded(calls[1])) =>
            /\ wr.callbacks = <<Callback(calls[1].callbacks[1].err, Undefined, Undefined, 1)>>
            /\ ~Started(calls[2])
        /\ Len(wr.callbacks) =< 1
        /\ Len(wr.callbacks) = 1 <=> AllEnded
        /\ \A i \in CallIds : i > 2 => ~Started(calls[i])

C14_Witness ==
    /\ wr.op \in UploadPictureOps
    /\ wr.selectedArea # <<>>
    /\ Succeeded(calls[1])
    /\ calls[2].pc = "done"
    /\ Len(wr.callbacks) = 1

\* C15: createTenant, updateTenant, stopTenant and startTenant: after a
\* successful request the callback is invoked with the success result and
\* not before WAIT_TIME (100 ms) has passed since the response; after a
\* failed request it is invoked with the error at the time of the response;
\* it is invoked at most once, and exactly once when nothing is pending.
C15_TenantWait ==
    wr.op \in TenantOps =>
        /\ Len(wr.callbacks) =< 1
        /\ (AllEnded /\ wr.timer = <<>>) => Len(wr.callbacks) = 1
        /\ Len(wr.callbacks) = 1 =>
            /\ calls[1].pc = "done"
            /\ IF Succeeded(calls[1])
               THEN /\ wr.cbAt[1] - wr.respAt[Len(wr.respAt)] >= 100
                    /\ wr.callbacks[1] =
                        (IF wr.op = "Tenants.createTenant"
                         THEN Callback(Null, calls[1].callbacks[1].body, Undefined, 2)
                         ELSE Callback(Null, Undefined, Undefined, 1))
               ELSE /\ wr.cbAt[1] = wr.respAt[Len(wr.respAt)]
                    /\ wr.callbacks[1] =
                        Callback(calls[1].callbacks[1].err, Undefined, Undefined, 1)
        /\ \A i \in CallIds : i > 1 => ~Started(calls[i])

C15_Witness ==
    /\ wr.op = "Tenants.createTenant"
    /\ Succeeded(calls[1])
    /\ wr.respAt[Len(wr.respAt)] > 0
    /\ Len(wr.callbacks) = 1
    /\ wr.cbAt[1] > wr.respAt[Len(wr.respAt)] + 100

\* C16: doSignedAuthentication calls back without an error exactly when the
\* POST to /api/auth/signed came back without an error and with status 302;
\* another status without an error gives {code: status, msg: 'Unexpected
\* response code'}, and an error of the request is given as it is.
C16_SignedAuthentication ==
    wr.op = "Admin.doSignedAuthentication" =>
        /\ Started(calls[1])
        /\ calls[1].url = "/api/auth/signed" /\ calls[1].method = "POST"
        /\ Len(wr.callbacks) =< 1
        /\ Len(wr.callbacks) = 1 <=> calls[1].pc = "done"
        /\ calls[1].pc = "done" =>
            LET cb == calls[1].callbacks[1]
                got == wr.callbacks[1]
            IN  /\ got.err \in {Null, Undefined} <=>
                    (cb.err = Null /\ cb.response.statusCode = 302)
                /\ (cb.err = Null /\ cb.response.statusCode # 302) =>
                    got.err = [code |-> cb.response.statusCode,
                               msg |-> "Unexpected response code"]
                /\ cb.err # Null => got.err = cb.err

C16_Witness ==
    /\ wr.op = "Admin.doSignedAuthentication"
    /\ Succeeded(calls[1])
    /\ calls[1].callbacks[1].response.statusCode = 302
    /\ Len(wr.callbacks) = 1
    /\ wr.callbacks[1].nargs = 0

\* the parts of C17 that are not about the admin context's cookie jar
C17_Steps ==
    /\ Started(calls[1]) /\ calls[1].ctx = "A"
    /\ calls[1].url \in {"/api/auth/signed/become", "/api/auth/signed/tenant"}
    /\ Started(calls[2]) =>
        /\ Succeeded(calls[1])
        /\ calls[2].ctx # "A"
        /\ calls[2].url = "/api/auth/signed"
    /\ Len(wr.callbacks) =< 1
    /\ Len(wr.callbacks) = 1 <=> AllEnded
    /\ (calls[1].pc = "done" /\ ~Succeeded(calls[1])) =>
        wr.callbacks = <<Callback(calls[1].callbacks[1].err, Undefined, Undefined, 1)>>
    /\ calls[2].pc = "done" =>
        LET cb == calls[2].callbacks[1]
            got == wr.callbacks[1]
        IN  IF cb.err = Null /\ cb.response.statusCode = 302
            THEN /\ got.err = Null /\ got.nargs = 2
                 /\ got.body.restCtx # "A"
                 /\ ctx[got.body.restCtx].host =
                        (IF wr.internalBaseUrl # <<>> THEN wr.internalBaseUrl[1]
                         ELSE "https://t.oae.org:8443")
                 /\ ctx[got.body.restCtx].hostHeader = <<"t.oae.org:8443">>
            ELSE /\ got.nargs = 1
                 /\ got.err = (IF cb.err # Null THEN cb.err
                               ELSE [code |-> cb.response.statusCode,
                                     msg |-> "Unexpected response code"])
    /\ ctx["A"].host = wr.before.host
    /\ ctx["A"].username = wr.before.username
    /\ ctx["A"].userPassword = wr.before.userPassword

Contains(t, sub) ==
    \E k \in 0..(Len(t) - Len(sub)) : \A n \in 1..Len(sub) : t[k + n] = sub[n]

\* C18: encodeURIComponent of the dispatch utility returns the empty string
\* for null and what the native encodeURIComponent gives for every other
\* argument; the path built from a null identifier does not hold 'null'.
C18_EncodeNull ==
    enc.phase \in {"encoded", "threw", "path"} =>
        /\ enc.input = Null => enc.out = Returned(<<>>)
        /\ enc.input # Null => enc.out = nativeEncodeURIComponent(enc.input)
        /\ (enc.phase = "path" /\ enc.input = Null) =>
            /\ ~Contains(enc.path, <<"n", "u", "l", "l">>)
            /\ enc.path = <<"/", "a", "p", "i", "/", "u", "s", "e", "r", "/", "/",
                            "m", "e", "m", "b", "e", "r", "s", "h", "i", "p", "s">>

C18_Witness ==
    /\ enc.phase = "path"
    /\ enc.input = Null

\* a download whose response came with a status other than 200 and 204
FailedDownload(call) ==
    /\ call.op = "download"
    /\ call.dl.response # Null
    /\ call.dl.response.statusCode \notin {200, 204}

\* the callback got {code: status, msg: 'Unable to download the file.'} alone
GotStatusError(call, k) ==
    /\ call.callbacks[k].nargs = 1
    /\ call.callbacks[k].err =
        [code |-> call.dl.response.statusCode, msg |-> "Unable to download the file."]

\* C19 as claimed: a download whose response has a status other than 200 and
\* 204 gives {code: status, msg: 'Unable to download the file.'} to the
\* callback and never a success, in whatever order the events of the request
\* and of the write stream come.
C19_DownloadStatusError ==
    \A i \in CallIds :
        FailedDownload(calls[i]) =>
            /\ \A k \in 1..Len(calls[i].callbacks) : GotStatusError(calls[i], k)
            /\ calls[i].dl.req = "ended" => Len(calls[i].callbacks) = 1

\* C19 amended: such a download never gives a success to the callback, and
\* calls it once by the time the request has ended: with the status error,
\* unless the write stream had an error before, whose error it then gets.
C19_DownloadNeverSuccess ==
    \A i \in CallIds :
        FailedDownload(calls[i]) =>
            /\ Len(calls[i].callbacks) =< 1
            /\ \A k \in 1..Len(calls[i].callbacks) :
                /\ calls[i].callbacks[k].err # Null
                /\ \/ GotStatusError(calls[i], k)
                   \/ /\ calls[i].callbacks[k].nargs = 2
                      /\ calls[i].callbacks[k].err = [code |-> "EACCES", msg |-> "write failed"]
                      /\ ~calls[i].dl.listeners
            /\ calls[i].dl.req = "ended" =>
                /\ Len(calls[i].callbacks) = 1
                /\ calls[i].dl.listeners => GotStatusError(calls[i], 1)

C19_Witness ==
    \E i \in CallIds :
        /\ FailedDownload(calls[i])
        /\ calls[i].dl.req = "ended"
        /\ ~calls[i].dl.listeners
        /\ Len(calls[i].callbacks) = 1
        /\ GotStatusError(calls[i], 1)

\* C20: getTransferById, which spells the method 'get', has its
\* originalUserId parameter sent in the query string and not in a body, as
\* the wrappers that pass 'GET' have theirs.
C20_GetTransferInQueryString ==
    wr.op = "Transfer.getTransferById" =>
        \A k \in SubRequests(calls[1]) :
            /\ calls[1].sent[k].req.qs = Params({"originalUserId"})
            /\ calls[1].sent[k].req.form = <<>>
            /\ calls[1].sent[k].req.multipart = <<>>

\* the contexts of the calls that take the step
ActingCtxs == {calls'[i].ctx : i \in {j \in CallIds : calls'[j] # calls[j]}}

\* a step leaves the contexts it is not made for, and their jars, as they were
OtherContextsKept ==
    \A b \in Ctxs \ ActingCtxs :
        /\ ctx'[b].cookieJar = ctx[b].cookieJar
        /\ ctx'[b].additionalHeaders = ctx[b].additionalHeaders
        /\ ctx'[b].username = ctx[b].username
        /\ ctx'[b].userPassword = ctx[b].userPassword
        /\ ctx[b].cookieJar # 0 => jars'[ctx[b].cookieJar] = jars[ctx[b].cookieJar]

\* every request sent carries the jar of its own context, which no other
\* context has, and no headers given for another context
OwnJarAndHeaders ==
    \A i \in CallIds : \A k \in 1..Len(calls[i].sent) :
        /\ calls[i].sent[k].jar # 0
        /\ calls[i].sent[k].jar = ctx[calls[i].ctx].cookieJar
        /\ calls[i].sent[k].headers \in {<<>>, <<attributesOf(calls[i].ctx)>>}
        /\ \A b \in Ctxs \ {calls[i].ctx} :
            /\ ctx[b].cookieJar # calls[i].sent[k].jar
            /\ calls[i].sent[k].headers # <<attributesOf(b)>>

\* C21: a performRestRequest, download or shibbolethSPCallback call on one
\* context leaves the cookie jar, additionalHeaders and credentials of every
\* other context unchanged, and the requests sent for a context never carry
\* the cookie jar or the headers of another one.
C21_ContextsApart == []OwnJarAndHeaders /\ [][OtherContextsKept]_vars

C21_Witness ==
    /\ calls[1].op = "shibbolethSPCallback" /\ calls[1].ctx = "A"
    /\ calls[1].pc = "sub"
    /\ ctx["A"].additionalHeaders = <<attributesOf("A")>>
    /\ calls[1].sent[Len(calls[1].sent)].headers = <<attributesOf("A")>>
    /\ calls[2].ctx = "B" /\ calls[2].sent # <<>>
    /\ ctx["B"].additionalHeaders = <<>>
    /\ ctx["B"].cookieJar \notin {0, ctx["A"].cookieJar}

====
